---------------------------- MODULE Spec2Model ----------------------------
(***************************************************************************)
(* A model of terrawrap (src/terrawrap.ts): the working-directory          *)
(* resolver, the upward scan for wrapper-config.yml / wrapper-config.yaml, *)
(* the validation of the parsed document, the execution-role loop and the  *)
(* before-hook / invoke / after-hook life cycle of 00_generated.tf.        *)
(*                                                                         *)
(* Strings are sequences of one-character strings, so that slice, length,  *)
(* startsWith and the regular expression act on characters as they do in   *)
(* the program.  Paths are POSIX paths.                                    *)
(***************************************************************************)
EXTENDS Integers, Sequences, FiniteSets, TLC

VARIABLES
  args,          \* Deno.args
  procCwd,       \* Deno.cwd()
  env,           \* the values of TERRAWRAP_NO_TERRAFORM and TERRAWRAP_NO_CLEANUP
  fs,            \* what reading and parsing each candidate config file gives
  genFile,       \* what <workingDir>/00_generated.tf holds on disk
  pc,            \* the position of the program
  workingDir,    \* the module constant workingDir
  scan,          \* the generator's state: directory and which of the two names
  reads,         \* the candidates read so far, in order
  config,        \* the result of loadConfig
  executionRole, \* the variable executionRole
  stderr,        \* what panic printed
  child,         \* the wrapped subprocess
  ret,           \* terraform()'s pending completion: a return value or a throw
  hist,          \* what has happened so far: hooks started, writes, removals
  exitCode       \* the wrapper's own exit code

vars == <<args, procCwd, env, fs, genFile, pc, workingDir, scan, reads, config,
          executionRole, stderr, child, ret, hist, exitCode>>

-----------------------------------------------------------------------------
(* JavaScript values.  s is the value's string conversion where the program *)
(* uses it (String.prototype.startsWith converts its argument).             *)

Undefined == [t |-> "undefined", s |-> <<"u","n","d","e","f","i","n","e","d">>]
Null == [t |-> "null", s |-> <<"n","u","l","l">>]
Str(s) == [t |-> "string", s |-> s]
Num(s) == [t |-> "number", s |-> s]

isValidString(v) == v.t = "string" /\ Len(v.s) > 0

startsWith(s, p) == Len(p) <= Len(s) /\ SubSeq(s, 1, Len(p)) = p

slice(s, n) == SubSeq(s, n + 1, Len(s))

-----------------------------------------------------------------------------
(* std/path (posix) *)

RECURSIVE SplitPath(_, _)
\* the segments of p between separators, the segment being built in cur
SplitPath(p, cur) ==
  IF p = <<>> THEN <<cur>>
  ELSE IF Head(p) = "/" THEN <<cur>> \o SplitPath(Tail(p), <<>>)
  ELSE SplitPath(Tail(p), Append(cur, Head(p)))

RECURSIVE normalizeString(_, _)
\* drops empty and "." segments; ".." removes the segment before it and
\* is dropped at the root
normalizeString(segs, acc) ==
  IF segs = <<>> THEN acc
  ELSE LET h == Head(segs) IN
    IF h = <<>> \/ h = <<".">> THEN normalizeString(Tail(segs), acc)
    ELSE IF h = <<".", ".">>
      THEN normalizeString(Tail(segs),
             IF acc = <<>> THEN acc ELSE SubSeq(acc, 1, Len(acc) - 1))
    ELSE normalizeString(Tail(segs), Append(acc, h))

RECURSIVE JoinSegs(_)
JoinSegs(segs) ==
  IF segs = <<>> THEN <<>>
  ELSE <<"/">> \o Head(segs) \o JoinSegs(Tail(segs))

\* an absolute path, normalized: "/" or /seg/seg...
NormalizeAbs(p) ==
  LET segs == normalizeString(SplitPath(p, <<>>), <<>>)
  IN IF segs = <<>> THEN <<"/">> ELSE JoinSegs(segs)

resolve(cwd, p) ==
  IF p # <<>> /\ Head(p) = "/" THEN NormalizeAbs(p)
  ELSE NormalizeAbs(cwd \o <<"/">> \o p)

join(dir, name) == NormalizeAbs(dir \o <<"/">> \o name)

\* the index of the last separator of p after the first character, 0 if none
LastSlash(p) ==
  LET S == {i \in 2..Len(p) : p[i] = "/"}
  IN IF S = {} THEN 0 ELSE CHOOSE i \in S : \A j \in S : j <= i

dirname(p) ==
  IF LastSlash(p) = 0
    THEN (IF p # <<>> /\ Head(p) = "/" THEN <<"/">> ELSE <<".">>)
    ELSE SubSeq(p, 1, LastSlash(p) - 1)

-----------------------------------------------------------------------------
(* workingDir: the -chdir scan *)

S_chdir == <<"-","c","h","d","i","r">>
S_chdir2 == <<"-","-","c","h","d","i","r">>

\* chdirRe tried at position i of a with a flag of length Len(f): the flag,
\* then the end of the string or "=" and the rest up to the end (no newline)
MatchAt(a, i, f) ==
  /\ i + Len(f) - 1 <= Len(a)
  /\ SubSeq(a, i, i + Len(f) - 1) = f
  /\ \/ i + Len(f) - 1 = Len(a)
     \/ /\ a[i + Len(f)] = "="
        /\ \A k \in (i + Len(f) + 1)..Len(a) : a[k] # "\n"

\* the regular expression has no ^: it is tried at every position
MatchPositions(a) ==
  {i \in 1..Len(a) : MatchAt(a, i, S_chdir) \/ MatchAt(a, i, S_chdir2)}

\* Deno.args[i].match(chdirRe): the leftmost match and its group 2
chdirRe(a) ==
  LET P == MatchPositions(a) IN
  IF P = {} THEN [matched |-> FALSE, g2 |-> Undefined]
  ELSE LET i == CHOOSE x \in P : \A y \in P : x <= y
           e == IF MatchAt(a, i, S_chdir2) THEN i + 7 ELSE i + 6
       IN [matched |-> TRUE,
           g2 |-> IF e > Len(a) THEN Undefined ELSE Str(SubSeq(a, e + 1, Len(a)))]

RECURSIVE WorkingDirLoop(_, _, _)
\* the for loop from index i (1-based) with the variable cwd
WorkingDirLoop(a, i, cwd) ==
  IF i > Len(a) THEN [panic |-> FALSE, msg |-> "", cwd |-> cwd]
  ELSE LET m == chdirRe(a[i]) IN
    IF ~m.matched THEN WorkingDirLoop(a, i + 1, cwd)
    ELSE IF cwd # Null
      THEN [panic |-> TRUE, msg |-> "Invalid multiple -chdir option", cwd |-> cwd]
    ELSE LET next == m.g2 = Undefined
             v == IF ~next THEN m.g2
                  ELSE IF i + 1 <= Len(a) THEN Str(a[i + 1]) ELSE Undefined
         IN IF ~isValidString(v)
              THEN [panic |-> TRUE, msg |-> "Invalid -chdir option", cwd |-> v]
              ELSE WorkingDirLoop(a, (IF next THEN i + 1 ELSE i) + 1, v)

\* the value of the constant workingDir, or the panic
WorkingDirResult(a, cwd) ==
  LET r == WorkingDirLoop(a, 1, Null) IN
  IF r.panic THEN [panic |-> TRUE, msg |-> r.msg, dir |-> <<>>]
  ELSE [panic |-> FALSE, msg |-> "",
        dir |-> IF r.cwd = Null THEN resolve(cwd, cwd) ELSE resolve(cwd, r.cwd.s)]

-----------------------------------------------------------------------------
(* allPossibleConfigLocation and loadConfig *)

S_yml == <<"w","r","a","p","p","e","r","-","c","o","n","f","i","g",".","y","m","l">>
S_yaml == <<"w","r","a","p","p","e","r","-","c","o","n","f","i","g",".","y","a","m","l">>
S_generated == <<"0","0","_","g","e","n","e","r","a","t","e","d",".","t","f">>

\* what Deno.readTextFile and parseYml give for a candidate
Absent == [st |-> "NotFound", doc |-> Null]
Unreadable == [st |-> "error", doc |-> Null]
Parsed(doc) == [st |-> "parsed", doc |-> doc]

FileAt(f) == IF f \in DOMAIN fs THEN fs[f] ELSE Absent

\* the generator yielding wrapper-config.yaml before wrapper-config.yml
CandidateYamlFirst(g) == join(g.dir, IF g.which = 1 THEN S_yaml ELSE S_yml)

\* the generator: the candidate it yields now
Candidate(g) == join(g.dir, IF g.which = 1 THEN S_yml ELSE S_yaml)

GeneratorDone(g) == g.which = 2 /\ dirname(g.dir) = g.dir

\* the generator resumed after a yield
GeneratorNext(g) ==
  IF g.which = 1 THEN [dir |-> g.dir, which |-> 2]
  ELSE [dir |-> dirname(g.dir), which |-> 1]

\* parsed?.s3_backend?.<field>
S3Field(parsed, f) ==
  IF parsed.t # "object" THEN Undefined
  ELSE IF parsed.s3_backend.t # "object" THEN Undefined
  ELSE parsed.s3_backend[f]

\* Array.isArray(parsed?.execution)
ExecutionIsArray(parsed) ==
  parsed.t = "object" /\ parsed.execution.t = "array"

ErrIf(bad, msg) == IF bad THEN <<msg>> ELSE <<>>

\* the validation stopping at the first invalid field
ValidationErrorsFirstOnly(parsed) ==
  IF ~isValidString(S3Field(parsed, "role_arn")) THEN <<".s3_backend.role_arn">>
  ELSE IF ~isValidString(S3Field(parsed, "region")) THEN <<".s3_backend.region">>
  ELSE IF ~isValidString(S3Field(parsed, "bucket")) THEN <<".s3_backend.bucket">>
  ELSE IF ~isValidString(S3Field(parsed, "dynamodb_table"))
    THEN <<".s3_backend.dynamodb_table">>
  ELSE ErrIf(~ExecutionIsArray(parsed), ".execution")

\* the array errors, in the order of the pushes
ValidationErrors(parsed) ==
     ErrIf(~isValidString(S3Field(parsed, "role_arn")), ".s3_backend.role_arn")
  \o ErrIf(~isValidString(S3Field(parsed, "region")), ".s3_backend.region")
  \o ErrIf(~isValidString(S3Field(parsed, "bucket")), ".s3_backend.bucket")
  \o ErrIf(~isValidString(S3Field(parsed, "dynamodb_table")), ".s3_backend.dynamodb_table")
  \o ErrIf(~ExecutionIsArray(parsed), ".execution")

\* key: workingDir.slice(path.dirname(configFile).length + 1)
KeyOf(wd, configFile) == slice(wd, Len(dirname(configFile)) + 1)

NoConfig == [found |-> FALSE, file |-> <<>>, key |-> <<>>, doc |-> Null]

NoOutput == [kind |-> "none", file |-> <<>>, errors |-> <<>>]

\* panic that prints and exits with success
panicExitZero(kind, file, errors) ==
  /\ stderr' = [kind |-> kind, file |-> file, errors |-> errors]
  /\ exitCode' = 0
  /\ pc' = "exited"

\* panic(msg): the message on standard error, then Deno.exit(1)
panic(kind, file, errors) ==
  /\ stderr' = [kind |-> kind, file |-> file, errors |-> errors]
  /\ exitCode' = 1
  /\ pc' = "exited"

\* Deno.readTextFile throws NotFound: the next candidate, or null after the last
ReadNotFound ==
  /\ pc = "loadConfig"
  /\ FileAt(Candidate(scan)).st = "NotFound"
  /\ reads' = Append(reads, Candidate(scan))
  /\ IF GeneratorDone(scan)
       THEN /\ config' = NoConfig
            /\ pc' = "try"
            /\ scan' = scan
       ELSE /\ scan' = GeneratorNext(scan)
            /\ UNCHANGED <<config, pc>>
  /\ UNCHANGED <<args, procCwd, env, fs, genFile, workingDir, executionRole,
                 stderr, child, ret, hist, exitCode>>

\* any other read error, or a parse error
ReadError ==
  /\ pc = "loadConfig"
  /\ FileAt(Candidate(scan)).st = "error"
  /\ reads' = Append(reads, Candidate(scan))
  /\ panic("File", Candidate(scan), <<>>)
  /\ UNCHANGED <<args, procCwd, env, fs, genFile, workingDir, scan, config,
                 executionRole, child, ret, hist>>

\* the document parsed and errors.length > 0
ValidateFail ==
  /\ pc = "loadConfig"
  /\ FileAt(Candidate(scan)).st = "parsed"
  /\ ValidationErrors(FileAt(Candidate(scan)).doc) # <<>>
  /\ reads' = Append(reads, Candidate(scan))
  /\ panic("Config error", Candidate(scan), ValidationErrors(FileAt(Candidate(scan)).doc))
  /\ UNCHANGED <<args, procCwd, env, fs, genFile, workingDir, scan, config,
                 executionRole, child, ret, hist>>

\* the document parsed and validated: loadConfig returns it
ConfigFound ==
  /\ pc = "loadConfig"
  /\ FileAt(Candidate(scan)).st = "parsed"
  /\ ValidationErrors(FileAt(Candidate(scan)).doc) = <<>>
  /\ reads' = Append(reads, Candidate(scan))
  /\ config' = [found |-> TRUE, file |-> Candidate(scan),
                key |-> KeyOf(workingDir, Candidate(scan)),
                doc |-> FileAt(Candidate(scan)).doc]
  /\ pc' = "key"
  /\ UNCHANGED <<args, procCwd, env, fs, genFile, workingDir, scan,
                 executionRole, stderr, child, ret, hist, exitCode>>

-----------------------------------------------------------------------------
(* the module body: workingDir, the key check, the execution role *)

\* the constant workingDir is computed, or the scan of the arguments panics
ResolveWorkingDir ==
  /\ pc = "workingDir"
  /\ LET r == WorkingDirResult(args, procCwd) IN
       IF r.panic
         THEN /\ panic(r.msg, <<>>, <<>>)
              /\ UNCHANGED <<workingDir, scan>>
         ELSE /\ workingDir' = r.dir
              /\ scan' = [dir |-> r.dir, which |-> 1]
              /\ pc' = "loadConfig"
              /\ UNCHANGED <<stderr, exitCode>>
  /\ UNCHANGED <<args, procCwd, env, fs, genFile, reads, config, executionRole,
                 child, ret, hist>>

\* !isValidString(config.key)
KeyInvalid ==
  /\ pc = "key"
  /\ ~isValidString(Str(config.key))
  /\ panic("Working directory must be in subdirectory of config file", config.file, <<>>)
  /\ UNCHANGED <<args, procCwd, env, fs, genFile, workingDir, scan, reads, config,
                 executionRole, child, ret, hist>>

\* o?.prefix and o?.aws_execution_role
RuleField(o, f) == IF o.t # "object" THEN Undefined ELSE o[f]

RECURSIVE ExecutionRoleLoop(_, _, _)
\* the for loop over the remaining rules with the variable executionRole
ExecutionRoleLoop(key, items, role) ==
  IF items = <<>> THEN role
  ELSE LET o == Head(items) IN
    IF startsWith(key, RuleField(o, "prefix").s)
      THEN LET r == RuleField(o, "aws_execution_role") IN
           IF isValidString(r) THEN r
           ELSE ExecutionRoleLoop(key, Tail(items), r)
      ELSE ExecutionRoleLoop(key, Tail(items), role)

ExecutionRoleOf(key, items) == ExecutionRoleLoop(key, items, Str(<<>>))

\* the key is valid: the loop, then the panic or the role
ResolveRole ==
  /\ pc = "key"
  /\ isValidString(Str(config.key))
  /\ LET r == ExecutionRoleOf(config.key, config.doc.execution.items) IN
       IF ~isValidString(r)
         THEN /\ panic("No execution role is found", config.file, <<>>)
              /\ UNCHANGED executionRole
         ELSE /\ executionRole' = r
              /\ pc' = "try"
              /\ UNCHANGED <<stderr, exitCode>>
  /\ UNCHANGED <<args, procCwd, env, fs, genFile, workingDir, scan, reads, config,
                 child, ret, hist>>

-----------------------------------------------------------------------------
(* terraform(before, after) and Deno.exit *)

\* Deno.env.get(name) == "true"
EnvIsTrue(name) == env[name] = "true"

\* path.join(config.workingDir, "00_generated.tf")
generatedFile == join(workingDir, S_generated)

\* the values interpolated into generatedContent, in the template's order
generatedContent ==
  LET b(f) == S3Field(config.doc, f).s IN
  <<b("role_arn"), b("region"), b("bucket"), b("dynamodb_table"), config.key,
    config.key, executionRole.s,
    b("role_arn"), b("region"), b("bucket"), b("dynamodb_table")>>

NoFile == [exists |-> FALSE, path |-> <<>>, content |-> <<>>]
ForeignFile == [exists |-> TRUE, path |-> <<>>, content |-> <<<<"x">>>>]

NoChild == [state |-> "none", bin |-> "", args |-> <<>>, status |-> [code |-> 0, signal |-> Undefined]]

NoRet == [kind |-> "none", code |-> 0]
Return(c) == [kind |-> "return", code |-> c]
Throw == [kind |-> "throw", code |-> 0]

\* status.signal == null
SignalIsNull(status) == status.signal.t \in {"undefined", "null"}

\* (status.signal == null) ? status.code : 1
StatusCode(status) == IF SignalIsNull(status) THEN status.code ELSE 1

\* the invoke step not waiting for the before-hook's write
InvokeReadyEarly == pc \in {"invoke", "writing"}

\* where the invoke step may start: after the awaited before-hook
InvokeReady == pc = "invoke"

\* if (before) await before(): the write of 00_generated.tf starts
BeforeHook ==
  /\ pc = "try"
  /\ config.found
  /\ hist' = [hist EXCEPT !.beforeStarted = TRUE]
  /\ pc' = "writing"
  /\ UNCHANGED <<args, procCwd, env, fs, genFile, workingDir, scan, reads, config,
                 executionRole, stderr, child, ret, exitCode>>

\* terraform() called without hooks
BeforeNone ==
  /\ pc = "try"
  /\ ~config.found
  /\ pc' = "invoke"
  /\ UNCHANGED <<args, procCwd, env, fs, genFile, workingDir, scan, reads, config,
                 executionRole, stderr, child, ret, hist, exitCode>>

\* Deno.writeTextFile settles: the file holds the content, or the write throws
WriteSettles ==
  /\ pc = "writing"
  /\ \/ /\ genFile' = [exists |-> TRUE, path |-> generatedFile, content |-> generatedContent]
        /\ hist' = [hist EXCEPT !.written = TRUE, !.overwrote = genFile.exists]
        /\ pc' = "invoke"
        /\ UNCHANGED ret
     \/ /\ ret' = Throw
        /\ pc' = "finally"
        /\ UNCHANGED <<genFile, hist>>
  /\ UNCHANGED <<args, procCwd, env, fs, workingDir, scan, reads, config,
                 executionRole, stderr, child, exitCode>>

\* TERRAWRAP_NO_TERRAFORM == "true": return 0
Suppressed ==
  /\ InvokeReady
  /\ child.state = "none"
  /\ EnvIsTrue("TERRAWRAP_NO_TERRAFORM")
  /\ ret' = Return(0)
  /\ pc' = "finally"
  /\ hist' = [hist EXCEPT !.invokeReached = TRUE]
  /\ UNCHANGED <<args, procCwd, env, fs, genFile, workingDir, scan, reads, config,
                 executionRole, stderr, child, exitCode>>

\* the subprocess started without the -chdir arguments
SpawnWithoutChdir ==
  /\ InvokeReady
  /\ child.state = "none"
  /\ ~EnvIsTrue("TERRAWRAP_NO_TERRAFORM")
  /\ child' = [child EXCEPT !.state = "running", !.bin = "terraform",
                            !.args = SelectSeq(args, LAMBDA a : ~chdirRe(a).matched)]
  /\ pc' = "wait"
  /\ hist' = [hist EXCEPT !.invokeReached = TRUE]
  /\ UNCHANGED <<args, procCwd, env, fs, genFile, workingDir, scan, reads, config,
                 executionRole, stderr, ret, exitCode>>

\* Deno.run({cmd: ["terraform", ...Deno.args]}): the subprocess starts
Spawn ==
  /\ InvokeReady
  /\ child.state = "none"
  /\ ~EnvIsTrue("TERRAWRAP_NO_TERRAFORM")
  /\ child' = [child EXCEPT !.state = "running", !.bin = "terraform", !.args = args]
  /\ pc' = "wait"
  /\ hist' = [hist EXCEPT !.invokeReached = TRUE]
  /\ UNCHANGED <<args, procCwd, env, fs, genFile, workingDir, scan, reads, config,
                 executionRole, stderr, ret, exitCode>>

\* Deno.run throws (the binary is not found, not executable)
SpawnRaises ==
  /\ pc = "invoke"
  /\ child.state = "none"
  /\ ~EnvIsTrue("TERRAWRAP_NO_TERRAFORM")
  /\ ret' = Throw
  /\ pc' = "finally"
  /\ hist' = [hist EXCEPT !.invokeReached = TRUE, !.spawnRaised = TRUE]
  /\ UNCHANGED <<args, procCwd, env, fs, genFile, workingDir, scan, reads, config,
                 executionRole, stderr, child, exitCode>>

ExitCodes == {0, 1, 3}

\* what .status() resolves to: an exit code, or a signal
StatusPool ==
  {[code |-> c, signal |-> Undefined] : c \in ExitCodes}
    \cup {[code |-> 137, signal |-> Num(<<"9">>)]}

\* await ....status(): the subprocess ends
ChildExits ==
  /\ pc = "wait"
  /\ child.state = "running"
  /\ \E st \in StatusPool :
       /\ child' = [child EXCEPT !.state = "exited", !.status = st]
       /\ ret' = Return(StatusCode(st))
  /\ pc' = "finally"
  /\ UNCHANGED <<args, procCwd, env, fs, genFile, workingDir, scan, reads, config,
                 executionRole, stderr, hist, exitCode>>

\* the after-hook run only when the try block completed without a throw
AfterHookNoFinally ==
  /\ pc = "finally"
  /\ config.found
  /\ IF ~EnvIsTrue("TERRAWRAP_NO_CLEANUP") /\ ret.kind = "return"
       THEN /\ hist' = [hist EXCEPT !.removeAttempts = @ + 1]
            /\ pc' = "removing"
       ELSE /\ pc' = "exit"
            /\ UNCHANGED hist
  /\ UNCHANGED <<args, procCwd, env, fs, genFile, workingDir, scan, reads, config,
                 executionRole, stderr, child, ret, exitCode>>

\* finally: if (after) await after(): Deno.remove starts unless
\* TERRAWRAP_NO_CLEANUP == "true"
AfterHook ==
  /\ pc = "finally"
  /\ config.found
  /\ IF ~EnvIsTrue("TERRAWRAP_NO_CLEANUP")
       THEN /\ hist' = [hist EXCEPT !.removeAttempts = @ + 1]
            /\ pc' = "removing"
       ELSE /\ pc' = "exit"
            /\ UNCHANGED hist
  /\ UNCHANGED <<args, procCwd, env, fs, genFile, workingDir, scan, reads, config,
                 executionRole, stderr, child, ret, exitCode>>

\* finally with no after-hook
AfterNone ==
  /\ pc = "finally"
  /\ ~config.found
  /\ pc' = "exit"
  /\ UNCHANGED <<args, procCwd, env, fs, genFile, workingDir, scan, reads, config,
                 executionRole, stderr, child, ret, hist, exitCode>>

\* Deno.remove settles: the file is gone, or the removal throws and the
\* throw replaces terraform()'s completion
RemoveSettles ==
  /\ pc = "removing"
  /\ \/ /\ genFile.exists
        /\ genFile' = NoFile
        /\ hist' = [hist EXCEPT !.removed = TRUE]
        /\ UNCHANGED ret
     \/ /\ ret' = Throw
        /\ hist' = [hist EXCEPT !.removeFailed = TRUE]
        /\ UNCHANGED genFile
  /\ pc' = "exit"
  /\ UNCHANGED <<args, procCwd, env, fs, workingDir, scan, reads, config,
                 executionRole, stderr, child, exitCode>>

\* Deno.exit(await terraform(...)); an uncaught rejection ends the process
\* with code 1
Exit ==
  /\ pc = "exit"
  /\ exitCode' = IF ret.kind = "return" THEN ret.code ELSE 1
  /\ pc' = "exited"
  /\ UNCHANGED <<args, procCwd, env, fs, genFile, workingDir, scan, reads, config,
                 executionRole, stderr, child, ret, hist>>

-----------------------------------------------------------------------------
(* the runs of the whole program *)

MaxFiles == 2

P_root == <<"/">>
P_a == <<"/","a">>
P_ab == <<"/","a","/","b">>
A_plan == <<"p","l","a","n">>
A_chdirEq == S_chdir \o <<"=">>

\* the command lines and current directories of the runs
MainInputs ==
  { [args |-> <<A_plan>>, cwd |-> P_a],
    [args |-> <<A_plan>>, cwd |-> P_root],
    [args |-> <<A_chdirEq \o P_ab, A_plan>>, cwd |-> P_root],
    [args |-> <<S_chdir2, <<"b">>, A_plan>>, cwd |-> P_a],
    [args |-> <<A_chdirEq, A_plan>>, cwd |-> P_a],
    [args |-> <<A_chdirEq \o P_a, A_plan, A_chdirEq \o P_a>>, cwd |-> P_a] }

EnvValues == {"unset", "true", "1"}

V_role == Str(<<"R">>)
V_x == Str(<<"x">>)

Rule(prefix, role) == [t |-> "object", prefix |-> prefix, aws_execution_role |-> role]

Doc(ra, re, bu, dt, ex) ==
  [t |-> "object",
   s3_backend |-> [t |-> "object", role_arn |-> ra, region |-> re, bucket |-> bu,
                   dynamodb_table |-> dt],
   execution |-> ex]

Array(items) == [t |-> "array", items |-> items]

ValidDoc == Doc(V_x, V_x, V_x, V_x, Array(<<Rule(Str(<<"b">>), V_role)>>))
InvalidDoc == Doc(V_x, Str(<<>>), V_x, Undefined, Array(<<>>))

MainStatuses == {Unreadable, Parsed(ValidDoc), Parsed(InvalidDoc)}

RECURSIVE Ancestors(_)
\* a directory and the directories above it
Ancestors(d) == IF dirname(d) = d THEN {d} ELSE {d} \cup Ancestors(dirname(d))

MainDirs == UNION {Ancestors(P_ab)}

Candidates(dirs) == {join(d, n) : d \in dirs, n \in {S_yml, S_yaml}}

\* the file systems with at most n candidate files present
FileSystems(cands, statuses, n) ==
  UNION { { [c \in cands |-> IF c \in T THEN f[c] ELSE Absent] : f \in [T -> statuses] }
          : T \in {X \in SUBSET cands : Cardinality(X) <= n} }

NoHist == [beforeStarted |-> FALSE, written |-> FALSE, overwrote |-> FALSE,
           invokeReached |-> FALSE, spawnRaised |-> FALSE, removeAttempts |-> 0,
           removed |-> FALSE, removeFailed |-> FALSE]

\* what is the same at the start of every run
InitRest ==
  /\ workingDir = <<>>
  /\ scan = [dir |-> <<>>, which |-> 1]
  /\ reads = <<>>
  /\ config = NoConfig
  /\ executionRole = Str(<<>>)
  /\ stderr = NoOutput
  /\ child = NoChild
  /\ ret = NoRet
  /\ hist = NoHist
  /\ exitCode = -1

Init ==
  /\ \E i \in MainInputs : args = i.args /\ procCwd = i.cwd
  /\ env \in [{"TERRAWRAP_NO_TERRAFORM", "TERRAWRAP_NO_CLEANUP"} -> EnvValues]
  /\ fs \in FileSystems(Candidates(MainDirs), MainStatuses, MaxFiles)
  /\ genFile \in {NoFile, ForeignFile}
  /\ pc = "workingDir"
  /\ InitRest

Next ==
  \/ ResolveWorkingDir
  \/ ReadNotFound
  \/ ReadError
  \/ ValidateFail
  \/ ConfigFound
  \/ KeyInvalid
  \/ ResolveRole
  \/ BeforeHook
  \/ BeforeNone
  \/ WriteSettles
  \/ Suppressed
  \/ Spawn
  \/ SpawnRaises
  \/ ChildExits
  \/ AfterHook
  \/ AfterNone
  \/ RemoveSettles
  \/ Exit

Spec == Init /\ [][Next]_vars

-----------------------------------------------------------------------------
(* The directories above a working directory, stated on path segments *)

Segs(p) == SelectSeq(SplitPath(p, <<>>), LAMBDA x : x # <<>>)

\* the directory made of the first k segments
DirOf(segs, k) == IF k = 0 THEN <<"/">> ELSE JoinSegs(SubSeq(segs, 1, k))

FileIn(dir, name) == IF dir = <<"/">> THEN dir \o name ELSE dir \o <<"/">> \o name

RECURSIVE ScanOrder(_, _)
\* nearest directory first, .yml before .yaml, up to and including the root
ScanOrder(segs, k) ==
  <<FileIn(DirOf(segs, k), S_yml), FileIn(DirOf(segs, k), S_yaml)>>
    \o (IF k = 0 THEN <<>> ELSE ScanOrder(segs, k - 1))

ExpectedOrder == ScanOrder(Segs(workingDir), Len(Segs(workingDir)))

\* the position of the first candidate that exists, 0 if none does
FirstExisting(order) ==
  LET E == {i \in 1..Len(order) : FileAt(order[i]).st # "NotFound"}
  IN IF E = {} THEN 0 ELSE CHOOSE i \in E : \A j \in E : i <= j

\* a document with the four s3_backend fields non-empty strings and
\* execution an array
WellFormed(f) ==
  /\ f.st = "parsed"
  /\ f.doc.t = "object"
  /\ f.doc.s3_backend.t = "object"
  /\ \A n \in {"role_arn", "region", "bucket", "dynamodb_table"} :
        f.doc.s3_backend[n].t = "string" /\ f.doc.s3_backend[n].s # <<>>
  /\ f.doc.execution.t = "array"

\* the working directory relative to the directory of the k-th candidate
RelativeTo(k) ==
  LET segs == Segs(workingDir)
      level == Len(segs) - ((k - 1) \div 2)
  IN Tail(JoinSegs(SubSeq(segs, level + 1, Len(segs))))

Resolved == workingDir # <<>>

-----------------------------------------------------------------------------
(* Properties of the runs of the whole program *)

NoCleanup == env["TERRAWRAP_NO_CLEANUP"] = "true"
NoTerraform == env["TERRAWRAP_NO_TERRAFORM"] = "true"

\* C1: once a configuration was found and the before-hook has started, the
\* wrapper does not exit before the after-hook has attempted to delete
\* 00_generated.tf, unless TERRAWRAP_NO_CLEANUP is "true"; with the override
\* no deletion is ever attempted.
C1_CleanupAlwaysAttempted ==
  /\ (pc \in {"exit", "exited"} /\ config.found /\ hist.beforeStarted /\ ~NoCleanup)
       => hist.removeAttempts = 1
  /\ NoCleanup => hist.removeAttempts = 0 /\ ~hist.removed /\ pc # "removing"

\* the before-hook's write failed, nothing was spawned, and the deletion was
\* attempted before the exit
C1_Witness ==
  /\ pc = "exited"
  /\ config.found /\ hist.beforeStarted /\ ~hist.written
  /\ child.state = "none"
  /\ hist.removeAttempts = 1

\* C2: with a configuration, the subprocess is spawned only after the write
\* of 00_generated.tf completed, and the deletion starts only after the
\* subprocess ended: while it runs, the file exists at
\* <workingDir>/00_generated.tf with the rendered content.
C2_FilePresentWhileRunning ==
  /\ (config.found /\ child.state # "none") => hist.written
  /\ (config.found /\ child.state = "running") =>
        /\ genFile.exists
        /\ genFile.path = FileIn(workingDir, S_generated)
        /\ genFile.content = generatedContent
        /\ hist.removeAttempts = 0
  /\ hist.removeAttempts > 0 => child.state # "running"

\* the subprocess runs and the file that was there before has been overwritten
C2_Witness ==
  /\ config.found
  /\ child.state = "running"
  /\ hist.overwrote
  /\ genFile.content = generatedContent

\* C3: in a run that reached the invoke step the exit code is the
\* subprocess's exit code, 1 after a signal, 0 (and nothing started) when
\* TERRAWRAP_NO_TERRAFORM is "true", whatever the after-hook's deletion did.
C3_ExitCode ==
  (pc = "exited" /\ hist.invokeReached) =>
     /\ (child.state = "exited" /\ child.status.signal = Undefined)
          => exitCode = child.status.code
     /\ (child.state = "exited" /\ child.status.signal # Undefined)
          => exitCode = 1
     /\ NoTerraform => (exitCode = 0 /\ child.state = "none")

\* C5: when the nearest existing candidate is a valid config file in a
\* directory strictly above the working directory, loadConfig returns it
\* and key is the working directory's path relative to that directory.
C5_KeyIsRelativePath ==
  (Resolved /\ pc # "loadConfig") =>
    LET k == FirstExisting(ExpectedOrder) IN
    (k > 2 /\ WellFormed(FileAt(ExpectedOrder[k]))) =>
       /\ config.found
       /\ config.file = ExpectedOrder[k]
       /\ config.key = RelativeTo(k)
       /\ config.key # <<>>

\* C7 as stated: with no candidate anywhere the wrapper never touches
\* 00_generated.tf, runs the wrapped binary with the original arguments and
\* exits with that binary's exit code.
C7_DegradedAsStated ==
  (Resolved /\ FirstExisting(ExpectedOrder) = 0) =>
     /\ ~hist.beforeStarted /\ hist.removeAttempts = 0 /\ genFile.path = <<>>
     /\ pc = "exited" =>
          /\ child.state = "exited"
          /\ child.bin = "terraform" /\ child.args = args
          /\ exitCode = child.status.code

\* C7 (amended): with no candidate anywhere the wrapper never touches
\* 00_generated.tf; unless TERRAWRAP_NO_TERRAFORM is "true" (nothing is
\* started, exit 0) it starts the wrapped binary with the original arguments
\* and exits with the binary's exit code after a normal end, with 1 after a
\* signal or when the binary could not be started.
C7_Degraded ==
  (Resolved /\ FirstExisting(ExpectedOrder) = 0) =>
     /\ ~hist.beforeStarted /\ hist.removeAttempts = 0 /\ ~hist.removed
     /\ genFile.path = <<>>
     /\ stderr.kind = "none"
     /\ child.state # "none" =>
          child.bin = "terraform" /\ child.args = args /\ ~NoTerraform
     /\ pc = "exited" =>
          IF NoTerraform THEN child.state = "none" /\ exitCode = 0
          ELSE IF hist.spawnRaised THEN child.state = "none" /\ exitCode = 1
          ELSE /\ child.state = "exited"
               /\ exitCode = IF child.status.signal = Undefined
                               THEN child.status.code ELSE 1

\* no candidate, a -chdir argument on the command line, the binary ended
\* with code 3 and so did the wrapper
C7_Witness ==
  /\ Resolved /\ FirstExisting(ExpectedOrder) = 0
  /\ pc = "exited"
  /\ \E i \in 1..Len(args) : startsWith(args[i], S_chdir)
  /\ child.state = "exited" /\ child.args = args
  /\ exitCode = 3

\* C9: the candidates are read nearest directory first, .yml before .yaml,
\* never past the first one that exists; that candidate is returned when it
\* parses and validates and ends the run with code 1 otherwise; with none
\* the scan ends after the root's two candidates with no configuration.
C9_FirstExistingDecides ==
  Resolved =>
    LET order == ExpectedOrder
        k == FirstExisting(order)
    IN /\ Len(reads) <= Len(order)
       /\ reads = SubSeq(order, 1, Len(reads))
       /\ k # 0 => Len(reads) <= k
       /\ pc # "loadConfig" =>
            IF k = 0
              THEN reads = order /\ ~config.found /\ stderr.kind = "none"
              ELSE /\ reads = SubSeq(order, 1, k)
                   /\ IF WellFormed(FileAt(order[k]))
                        THEN /\ config.found
                             /\ config.file = order[k]
                             /\ config.doc = FileAt(order[k]).doc
                        ELSE /\ ~config.found
                             /\ pc = "exited" /\ exitCode = 1
                             /\ stderr.file = order[k]
                             /\ stderr.kind = IF FileAt(order[k]).st = "error"
                                                THEN "File" ELSE "Config error"
                             /\ child.state = "none" /\ ~hist.beforeStarted

\* the nearest existing candidate is not a valid config, a valid one exists
\* farther on in the scan order, and the run has ended
C9_Witness ==
  /\ Resolved
  /\ pc = "exited"
  /\ LET k == FirstExisting(ExpectedOrder) IN
       /\ k # 0
       /\ ~WellFormed(FileAt(ExpectedOrder[k]))
       /\ \E j \in (k + 1)..Len(ExpectedOrder) : WellFormed(FileAt(ExpectedOrder[j]))

\* C10: a panic ends the run with code 1 with 00_generated.tf never written
\* or deleted and nothing spawned; and no hook or invocation starts in a run
\* with an unreadable or invalid nearest config, an empty key or no rule
\* giving a non-empty role.
C10_FatalBeforeHooks ==
  /\ stderr.kind # "none" =>
       /\ pc = "exited" /\ exitCode = 1
       /\ ~hist.beforeStarted /\ ~hist.written /\ ~hist.invokeReached
       /\ hist.removeAttempts = 0 /\ ~hist.removed
       /\ genFile.path = <<>>
       /\ child.state = "none"
  /\ (hist.beforeStarted \/ hist.invokeReached) =>
       /\ Resolved
       /\ LET k == FirstExisting(ExpectedOrder) IN
            k # 0 => WellFormed(FileAt(ExpectedOrder[k]))
       /\ config.found =>
            /\ config.key # <<>>
            /\ dirname(config.file) # workingDir
            /\ executionRole.t = "string" /\ executionRole.s # <<>>
            /\ \E i \in 1..Len(config.doc.execution.items) :
                  config.doc.execution.items[i].aws_execution_role = executionRole
  /\ (pc = "exited" /\ (~Resolved \/ (config.found /\ executionRole.s = <<>>))) =>
       exitCode = 1 /\ stderr.kind # "none"

\* no execution rule gave a role: exit 1 with the file that was there untouched
C10_Witness ==
  /\ pc = "exited"
  /\ stderr.kind = "No execution role is found"
  /\ exitCode = 1
  /\ genFile = ForeignFile
  /\ child.state = "none"

-----------------------------------------------------------------------------
(* The working-directory resolver on its own: command lines of up to       *)
(* MaxArgs arguments                                                       *)

MaxArgs == 3

ArgPool ==
  { A_plan, <<"b">>, <<>>,
    S_chdir, S_chdir2, A_chdirEq, A_chdirEq \o P_ab, S_chdir2 \o <<"=", "b">>,
    <<"x">> \o A_chdirEq \o P_a, <<"-","v","a","r","=","a">> \o S_chdir,
    S_chdir \o <<"x">> }

SeqsUpTo(S, n) == UNION {[1..k -> S] : k \in 0..n}

InitArgs ==
  /\ args \in SeqsUpTo(ArgPool, MaxArgs)
  /\ procCwd = P_a
  /\ env = [n \in {"TERRAWRAP_NO_TERRAFORM", "TERRAWRAP_NO_CLEANUP"} |-> "unset"]
  /\ fs = [c \in Candidates(MainDirs) |-> Absent]
  /\ genFile = NoFile
  /\ pc = "workingDir"
  /\ InitRest

NextArgs == ResolveWorkingDir

SpecArgs == InitArgs /\ [][NextArgs]_vars

\* an argument that is the change-directory flag: -chdir or --chdir, or one
\* beginning with -chdir= or --chdir=
IsChdirFlag(a) ==
  \/ a = S_chdir
  \/ a = S_chdir2
  \/ startsWith(a, S_chdir \o <<"=">>)
  \/ startsWith(a, S_chdir2 \o <<"=">>)

RECURSIVE FlagValues(_, _)
\* the values of the flags from argument i on; the argument after a bare
\* flag is its value and is not examined
FlagValues(a, i) ==
  IF i > Len(a) THEN <<>>
  ELSE IF ~IsChdirFlag(a[i]) THEN FlagValues(a, i + 1)
  ELSE IF a[i] = S_chdir \/ a[i] = S_chdir2
    THEN <<IF i + 1 <= Len(a) THEN a[i + 1] ELSE <<>>>> \o FlagValues(a, i + 2)
  ELSE IF startsWith(a[i], S_chdir2)
    THEN <<SubSeq(a[i], 9, Len(a[i]))>> \o FlagValues(a, i + 1)
  ELSE <<SubSeq(a[i], 8, Len(a[i]))>> \o FlagValues(a, i + 1)

\* C8: the resolver ends the run with a non-zero code exactly when the
\* change-directory flag appears more than once or its value is empty;
\* otherwise workingDir is the flag's value made absolute, or the current
\* directory when no argument is the flag.
C8_ResolverAsStated ==
  pc # "workingDir" =>
    LET v == FlagValues(args, 1) IN
    IF Len(v) > 1 \/ (Len(v) = 1 /\ v[1] = <<>>)
      THEN pc = "exited" /\ exitCode > 0
      ELSE /\ pc = "loadConfig"
           /\ workingDir = IF v = <<>> THEN procCwd ELSE resolve(procCwd, v[1])

-----------------------------------------------------------------------------
(* The execution-role loop on its own: keys and lists of up to MaxRules    *)
(* rules                                                                   *)

MaxRules == 2

P_c == <<"/","c">>

KeyPool ==
  { <<"a">>, <<"a","/","b">>, <<"b">>, Undefined.s \o <<"/","b">> }

NullRule == [t |-> "null", prefix |-> Undefined, aws_execution_role |-> Undefined]

RulePool ==
  { Rule(p, r) : p \in {Str(<<>>), Str(<<"a">>), Str(<<"a","/","b">>), Undefined},
                 r \in {Str(<<"R">>), Str(<<"S">>), Str(<<>>), Undefined} }
    \cup {NullRule}

\* the state in which loadConfig has returned doc, found in /c, for a
\* working directory /c/<key>
AfterLoad(key, doc) ==
  /\ args = <<A_chdirEq \o P_c \o <<"/">> \o key>>
  /\ procCwd = P_a
  /\ workingDir = P_c \o <<"/">> \o key
  /\ fs = [c \in {FileIn(P_c, S_yml)} |-> Parsed(doc)]
  /\ scan = [dir |-> P_c, which |-> 1]
  /\ reads = SubSeq(ExpectedOrder, 1, 2 * (Len(Segs(workingDir)) - 1) + 1)
  /\ config = [found |-> TRUE, file |-> FileIn(P_c, S_yml), key |-> key, doc |-> doc]
  /\ pc = "key"

InitRole ==
  /\ \E key \in KeyPool, rules \in SeqsUpTo(RulePool, MaxRules) :
       AfterLoad(key, Doc(V_x, V_x, V_x, V_x, Array(rules)))
  /\ env = [n \in {"TERRAWRAP_NO_TERRAFORM", "TERRAWRAP_NO_CLEANUP"} |-> "unset"]
  /\ genFile = NoFile
  /\ executionRole = Str(<<>>)
  /\ stderr = NoOutput
  /\ child = NoChild
  /\ ret = NoRet
  /\ hist = NoHist
  /\ exitCode = -1

NextRole == ResolveRole

SpecRole == InitRole /\ [][NextRole]_vars

\* the rules whose non-empty prefix is a prefix of the key and whose role
\* is a non-empty string
Selectable(key, items) ==
  { i \in 1..Len(items) :
      /\ items[i].t = "object"
      /\ items[i].prefix.t = "string" /\ items[i].prefix.s # <<>>
      /\ startsWith(key, items[i].prefix.s)
      /\ items[i].aws_execution_role.t = "string"
      /\ items[i].aws_execution_role.s # <<>> }

\* C4: the selected role is the role of the first rule whose non-empty
\* prefix is a prefix of the key and whose role is non-empty; with no such
\* rule the run ends with code 1.
C4_RoleAsStated ==
  pc # "key" =>
    LET items == config.doc.execution.items
        S == Selectable(config.key, items)
    IN IF S = {} THEN pc = "exited" /\ exitCode = 1
       ELSE /\ pc = "try"
            /\ executionRole =
                 items[CHOOSE i \in S : \A j \in S : i <= j].aws_execution_role

-----------------------------------------------------------------------------
(* The validation on its own: every shape of the parsed document           *)

FieldValues == {Undefined, Str(<<>>), V_x, Num(<<"1">>)}

NoS3 == [t |-> "undefined", role_arn |-> Undefined, region |-> Undefined,
         bucket |-> Undefined, dynamodb_table |-> Undefined]

ExecutionValues ==
  { Array(<<>>), Array(<<Rule(Str(<<"a">>), V_role)>>),
    [t |-> "undefined", items |-> <<>>], [t |-> "string", items |-> <<>>] }

\* what parseYml can return: null, a scalar, an object with or without
\* s3_backend and execution
DocSpace ==
  { Doc(ra, re, bu, dt, ex) : ra \in FieldValues, re \in FieldValues,
      bu \in FieldValues, dt \in FieldValues, ex \in ExecutionValues }
  \cup { [t |-> "object", s3_backend |-> NoS3, execution |-> ex] : ex \in ExecutionValues }
  \cup { [t |-> "null", s3_backend |-> NoS3, execution |-> [t |-> "undefined", items |-> <<>>]],
         [t |-> "string", s3_backend |-> NoS3, execution |-> [t |-> "undefined", items |-> <<>>]] }

InitValidate ==
  /\ \E doc \in DocSpace :
       /\ fs = [c \in {FileIn(P_c, S_yml)} |-> Parsed(doc)]
       /\ args = <<A_chdirEq \o P_c \o <<"/", "a">>>>
       /\ procCwd = P_a
       /\ workingDir = P_c \o <<"/", "a">>
       /\ scan = [dir |-> P_c, which |-> 1]
       /\ reads = SubSeq(ExpectedOrder, 1, 2)
  /\ config = NoConfig
  /\ pc = "loadConfig"
  /\ env = [n \in {"TERRAWRAP_NO_TERRAFORM", "TERRAWRAP_NO_CLEANUP"} |-> "unset"]
  /\ genFile = NoFile
  /\ executionRole = Str(<<>>)
  /\ stderr = NoOutput
  /\ child = NoChild
  /\ ret = NoRet
  /\ hist = NoHist
  /\ exitCode = -1

NextValidate == ValidateFail \/ ConfigFound

SpecValidate == InitValidate /\ [][NextValidate]_vars

\* the fields of doc that are not as required
InvalidFields(doc) ==
  { ".s3_backend." \o n : n \in
      { n \in {"role_arn", "region", "bucket", "dynamodb_table"} :
          ~( /\ doc.t = "object"
             /\ doc.s3_backend.t = "object"
             /\ doc.s3_backend[n].t = "string"
             /\ doc.s3_backend[n].s # <<>> ) } }
  \cup (IF doc.t = "object" /\ doc.execution.t = "array" THEN {} ELSE {".execution"})

TheDoc == fs[FileIn(P_c, S_yml)].doc

\* C6: loading a parsed document fails with code 1 if and only if one of
\* the four s3_backend fields is not a non-empty string or execution is not
\* an array, and the one report then lists each invalid field once and no
\* valid field.
C6_ValidationReportsAll ==
  pc # "loadConfig" =>
    IF InvalidFields(TheDoc) = {}
      THEN pc = "key" /\ config.found /\ stderr.kind = "none"
      ELSE /\ pc = "exited" /\ exitCode = 1
           /\ stderr.kind = "Config error"
           /\ {stderr.errors[i] : i \in 1..Len(stderr.errors)} = InvalidFields(TheDoc)
           /\ Len(stderr.errors) = Cardinality(InvalidFields(TheDoc))

\* a report of three invalid fields, two fields being valid
C6_Witness ==
  /\ pc = "exited"
  /\ stderr.kind = "Config error"
  /\ Len(stderr.errors) = 3
  /\ Cardinality(InvalidFields(TheDoc)) = 3

=============================================================================
